---- MODULE Spec2Model ----
(***************************************************************************)
(* Model of src/goddard/gd_math.c: the goddard 4x4 matrix / 3-vector       *)
(* algebra.  Every C function is an operator from the memory before the    *)
(* call to the memory after it; matrices live in caller-owned buffers that *)
(* are named by pointers, so that an output may alias an input.            *)
(*                                                                         *)
(* f32 values are modelled as exact rationals <<num, den>> in lowest terms *)
(* (den > 0), extended with the IEEE specials +inf = <<1,0>>,              *)
(* -inf = <<-1,0>> and NaN = <<0,0>>.  The inputs are small integers, for  *)
(* which f32 addition, subtraction and multiplication are exact; rounding, *)
(* overflow and underflow of f32 are outside the model.  sqrtf is exact on *)
(* perfect squares and rounded down to a multiple of 1/SqrtScale elsewhere.*)
(***************************************************************************)
EXTENDS Integers, Sequences, FiniteSets, TLC

\* ---------------------------------------------------------------- bounds
\* number of rows of RowTable the input matrices are built from
NumRows == 4
\* vector components are drawn from -MaxVal..MaxVal
MaxVal == 3
\* resolution of the modelled sqrtf on arguments that are not perfect squares
SqrtScale == 32

\* LET x == v IN Op(x), with v evaluated once, before Op
Let1(v, Op(_)) == CHOOSE r \in {Op(x) : x \in {v}} : TRUE

\* ------------------------------------------------------------ f32 values
Abs(n) == IF n < 0 THEN -n ELSE n

Sgn(n) == IF n > 0 THEN 1 ELSE IF n < 0 THEN -1 ELSE 0

RECURSIVE GCD(_, _)
GCD(a, b) == IF b = 0 THEN a ELSE GCD(b, a % b)

\* lowest terms; a zero denominator keeps only the sign (inf) or 0 (NaN)
Norm(n, d) ==
    IF d = 0 THEN <<Sgn(n), 0>>
    ELSE IF d = 1 THEN <<n, 1>>
    ELSE LET s == IF d < 0 THEN -1 ELSE 1
             g == GCD(Abs(n), Abs(d))
         IN  <<(s * n) \div g, (s * d) \div g>>

F(n) == <<n, 1>>

NaN == <<0, 0>>

IsNaN(a) == a = NaN

IsFinite(a) == a[2] # 0

FNeg(a) == <<-a[1], a[2]>>

\* the sum over the least common denominator
FAdd(a, b) ==
    IF a[2] = 1 /\ b[2] = 1 THEN <<a[1] + b[1], 1>>
    ELSE IF a[2] = 0 /\ b[2] = 0 THEN (IF a = b THEN a ELSE NaN)
    ELSE IF a[2] = 0 THEN a
    ELSE IF b[2] = 0 THEN b
    ELSE LET g == GCD(a[2], b[2])
         IN  Norm(a[1] * (b[2] \div g) + b[1] * (a[2] \div g), (a[2] \div g) * b[2])

FSub(a, b) == FAdd(a, FNeg(b))

\* the product, cancelled crosswise before it is multiplied out
FMul(a, b) ==
    IF a[2] = 1 /\ b[2] = 1 THEN <<a[1] * b[1], 1>>
    ELSE IF a[2] = 0 \/ b[2] = 0 THEN <<Sgn(a[1]) * Sgn(b[1]), 0>>
    ELSE IF a[1] = 0 \/ b[1] = 0 THEN <<0, 1>>
    ELSE LET g1 == GCD(Abs(a[1]), b[2])
             g2 == GCD(Abs(b[1]), a[2])
         IN  <<(a[1] \div g1) * (b[1] \div g2), (a[2] \div g2) * (b[2] \div g1)>>

\* 1/x: 1/0 = +inf, 1/inf = 0, 1/NaN = NaN
FRecip(a) ==
    IF a[1] > 0 THEN <<a[2], a[1]>>
    ELSE IF a[1] < 0 THEN <<-a[2], -a[1]>>
    ELSE IF a[2] = 0 THEN NaN ELSE <<1, 0>>

FDiv(a, b) == FMul(a, FRecip(b))

\* C comparisons: every comparison with NaN is false
FEq(a, b) == a = b /\ ~IsNaN(a)

\* finite values are compared by their integer parts, then their fractions
FLt(a, b) ==
    IF IsNaN(a) \/ IsNaN(b) THEN FALSE
    ELSE IF a[2] = 0 THEN a[1] < 0 /\ a # b
    ELSE IF b[2] = 0 THEN b[1] > 0
    ELSE LET ia == a[1] \div a[2]
             ib == b[1] \div b[2]
         IN  ia < ib \/ (ia = ib /\ (a[1] % a[2]) * b[2] < (b[1] % b[2]) * a[2])

FLe(a, b) == FLt(a, b) \/ FEq(a, b)

RECURSIVE ISqrtIn(_, _, _)
ISqrtIn(n, lo, hi) ==
    IF lo >= hi THEN lo
    ELSE LET mid == (lo + hi + 1) \div 2
         IN  IF mid * mid <= n THEN ISqrtIn(n, mid, hi) ELSE ISqrtIn(n, lo, mid - 1)

\* floor of the square root of a natural number below 2^30
ISqrt(n) == ISqrtIn(n, 0, IF n < 32768 THEN n ELSE 32768)

IsSquare(n) == n >= 0 /\ ISqrt(n) * ISqrt(n) = n

FGt(a, b) == FLt(b, a)

\* src/goddard/gd_math.c uses the macros sqr(x) = x*x and absf(x) = |x|
sqr(x) == FMul(x, x)

absf(x) == <<Abs(x[1]), x[2]>>

\* sqrtf: NaN for NaN and negative arguments, exact on perfect squares,
\* otherwise rounded down to a multiple of 1/SqrtScale
sqrtf(a) ==
    IF IsNaN(a) \/ a[1] < 0 THEN NaN
    ELSE IF a[2] = 0 THEN a
    ELSE IF IsSquare(a[1]) /\ IsSquare(a[2]) THEN <<ISqrt(a[1]), ISqrt(a[2])>>
    ELSE Norm(ISqrt((a[1] * SqrtScale * SqrtScale) \div a[2]), SqrtScale)

\* --------------------------------------------------------------- memory
\* the caller-owned Mat4f buffers; a pointer is the name of a buffer
Bufs == {"m0", "m1", "m2"}

Idx == 0..3

\* a Mat4f is addressed [row][col]
Mat4fOf(rows) == [i \in Idx |-> [j \in Idx |-> rows[i + 1][j + 1]]]

\* (*p)[i][j] = v
Store(m, p, i, j, v) == [m EXCEPT ![p][i][j] = v]

\* a local Mat4f on the stack of a call: its entries hold no value until written
Local(m, name) == [p \in (DOMAIN m) \cup {name} |-> IF p = name THEN [i \in Idx |-> [j \in Idx |-> "uninit"]] ELSE m[p]]

\* the local is gone on return
Return(m, name) == [p \in (DOMAIN m) \ {name} |-> m[p]]

\* a gd_set_identity_mat4 that leaves 0 in entry [3][3]
gd_set_identity_mat4_zero33(m, mtx) ==
    [m EXCEPT ![mtx] = Mat4fOf(<<<<F(1), F(0), F(0), F(0)>>,
                                        <<F(0), F(1), F(0), F(0)>>,
                                        <<F(0), F(0), F(1), F(0)>>,
                                        <<F(0), F(0), F(0), F(0)>>>>)]

\* gd_set_identity_mat4(mtx)
gd_set_identity_mat4(m, mtx) ==
    [m EXCEPT ![mtx] = Mat4fOf(<<<<F(1), F(0), F(0), F(0)>>,
                                        <<F(0), F(1), F(0), F(0)>>,
                                        <<F(0), F(0), F(1), F(0)>>,
                                        <<F(0), F(0), F(0), F(1)>>>>)]

\* gd_copy_mat4f(src, dst)
gd_copy_mat4f(m, src, dst) ==
    [m EXCEPT ![dst] = Mat4fOf(<<<<m[src][0][0], m[src][0][1], m[src][0][2], m[src][0][3]>>,
                                        <<m[src][1][0], m[src][1][1], m[src][1][2], m[src][1][3]>>,
                                        <<m[src][2][0], m[src][2][1], m[src][2][2], m[src][2][3]>>,
                                        <<m[src][3][0], m[src][3][1], m[src][3][2], m[src][3][3]>>>>)]

\* the value read from (*P)[i][j] while (*R)[row][col] holds cur and the rest
\* of the memory is as in m
Peek(m, P, i, j, R, row, col, cur) ==
    IF P = R /\ i = row /\ j = col THEN cur ELSE m[P][i][j]

\* the macro GD_MAT4_DOT_PROD(A, B, R, row, col): four statements on
\* (R)[row][col]; v1..v4 are the values it holds after each, and every
\* statement reads its operands as they are in memory at that point
GD_MAT4_DOT_PROD(m, A, B, R, row, col) ==
    LET v1 == FMul(m[A][row][0], m[B][0][col])
        v2 == FAdd(v1, FMul(Peek(m, A, row, 1, R, row, col, v1), Peek(m, B, 1, col, R, row, col, v1)))
        v3 == FAdd(v2, FMul(Peek(m, A, row, 2, R, row, col, v2), Peek(m, B, 2, col, R, row, col, v2)))
        v4 == FAdd(v3, FMul(Peek(m, A, row, 3, R, row, col, v3), Peek(m, B, 3, col, R, row, col, v3)))
    IN  Store(m, R, row, col, v4)

\* the (row, col) arguments of the 16 GD_MAT4_DOT_PROD of GD_MAT4_MULTIPLY, in order
DotProdOrder ==
    << <<0, 0>>, <<0, 1>>, <<0, 2>>, <<0, 3>>,
       <<1, 0>>, <<1, 1>>, <<1, 2>>, <<1, 3>>,
       <<2, 0>>, <<2, 1>>, <<2, 2>>, <<2, 3>>,
       <<3, 0>>, <<3, 1>>, <<3, 2>>, <<3, 3>> >>

\* the dot products from the k-th on, each on the memory the one before it left
RECURSIVE MultiplyFrom(_, _, _, _, _)
MultiplyFrom(m, A, B, R, k) ==
    IF k > Len(DotProdOrder) THEN m
    ELSE Let1(GD_MAT4_DOT_PROD(m, A, B, R, DotProdOrder[k][1], DotProdOrder[k][2]),
              LAMBDA s : MultiplyFrom(s, A, B, R, k + 1))

\* the macro GD_MAT4_MULTIPLY(A, B, R)
GD_MAT4_MULTIPLY(m, A, B, R) == MultiplyFrom(m, A, B, R, 1)

\* a gd_mult_mat4f that multiplies straight into dst, without the local res
gd_mult_mat4f_in_place(m, mA, mB, dst) == GD_MAT4_MULTIPLY(m, mA, mB, dst)

\* gd_mult_mat4f(mA, mB, dst): the product goes to the local res, then to dst
gd_mult_mat4f(m, mA, mB, dst) ==
    Let1(GD_MAT4_MULTIPLY(Local(m, "res"), mA, mB, "res"),
         LAMBDA s1 : Let1(gd_copy_mat4f(s1, "res", dst),
                          LAMBDA s2 : Return(s2, "res")))

\* ------------------------------------------------- determinant engine
\* gd_2x2_det(a, b, c, d)
gd_2x2_det(a, b, c, d) == FSub(FMul(a, d), FMul(b, c))

\* gd_3x3_det(r0c0, ..., r2c2)
gd_3x3_det(r0c0, r0c1, r0c2, r1c0, r1c1, r1c2, r2c0, r2c1, r2c2) ==
    FAdd(FSub(FMul(r0c0, gd_2x2_det(r1c1, r1c2, r2c1, r2c2)),
              FMul(r1c0, gd_2x2_det(r0c1, r0c2, r2c1, r2c2))),
         FMul(r2c0, gd_2x2_det(r0c1, r0c2, r1c1, r1c2)))

\* a gd_adjunct_mat4f whose entry [2][1] has the sign of its cofactor reversed
gd_adjunct_mat4f_sign(m, src, dst) ==
    LET inv == [r0 |-> [c0 |-> m[src][3][3], c1 |-> m[src][2][3], c2 |-> m[src][1][3], c3 |-> m[src][0][3]],
                r1 |-> [c0 |-> m[src][3][2], c1 |-> m[src][2][2], c2 |-> m[src][1][2], c3 |-> m[src][0][2]],
                r2 |-> [c0 |-> m[src][3][1], c1 |-> m[src][2][1], c2 |-> m[src][1][1], c3 |-> m[src][0][1]],
                r3 |-> [c0 |-> m[src][3][0], c1 |-> m[src][2][0], c2 |-> m[src][1][0], c3 |-> m[src][0][0]]]
    IN  [m EXCEPT ![dst] = Mat4fOf(<<<<gd_3x3_det(inv.r2.c2, inv.r2.c1, inv.r2.c0, inv.r1.c2, inv.r1.c1, inv.r1.c0, inv.r0.c2, inv.r0.c1, inv.r0.c0),
                                          FNeg(gd_3x3_det(inv.r2.c3, inv.r2.c1, inv.r2.c0, inv.r1.c3, inv.r1.c1, inv.r1.c0, inv.r0.c3, inv.r0.c1, inv.r0.c0)),
                                          gd_3x3_det(inv.r2.c3, inv.r2.c2, inv.r2.c0, inv.r1.c3, inv.r1.c2, inv.r1.c0, inv.r0.c3, inv.r0.c2, inv.r0.c0),
                                          FNeg(gd_3x3_det(inv.r2.c3, inv.r2.c2, inv.r2.c1, inv.r1.c3, inv.r1.c2, inv.r1.c1, inv.r0.c3, inv.r0.c2, inv.r0.c1))>>,
                                        <<FNeg(gd_3x3_det(inv.r3.c2, inv.r3.c1, inv.r3.c0, inv.r1.c2, inv.r1.c1, inv.r1.c0, inv.r0.c2, inv.r0.c1, inv.r0.c0)),
                                          gd_3x3_det(inv.r3.c3, inv.r3.c1, inv.r3.c0, inv.r1.c3, inv.r1.c1, inv.r1.c0, inv.r0.c3, inv.r0.c1, inv.r0.c0),
                                          FNeg(gd_3x3_det(inv.r3.c3, inv.r3.c2, inv.r3.c0, inv.r1.c3, inv.r1.c2, inv.r1.c0, inv.r0.c3, inv.r0.c2, inv.r0.c0)),
                                          gd_3x3_det(inv.r3.c3, inv.r3.c2, inv.r3.c1, inv.r1.c3, inv.r1.c2, inv.r1.c1, inv.r0.c3, inv.r0.c2, inv.r0.c1)>>,
                                        <<gd_3x3_det(inv.r3.c2, inv.r3.c1, inv.r3.c0, inv.r2.c2, inv.r2.c1, inv.r2.c0, inv.r0.c2, inv.r0.c1, inv.r0.c0),
                                          gd_3x3_det(inv.r3.c3, inv.r3.c1, inv.r3.c0, inv.r2.c3, inv.r2.c1, inv.r2.c0, inv.r0.c3, inv.r0.c1, inv.r0.c0),
                                          gd_3x3_det(inv.r3.c3, inv.r3.c2, inv.r3.c0, inv.r2.c3, inv.r2.c2, inv.r2.c0, inv.r0.c3, inv.r0.c2, inv.r0.c0),
                                          FNeg(gd_3x3_det(inv.r3.c3, inv.r3.c2, inv.r3.c1, inv.r2.c3, inv.r2.c2, inv.r2.c1, inv.r0.c3, inv.r0.c2, inv.r0.c1))>>,
                                        <<FNeg(gd_3x3_det(inv.r3.c2, inv.r3.c1, inv.r3.c0, inv.r2.c2, inv.r2.c1, inv.r2.c0, inv.r1.c2, inv.r1.c1, inv.r1.c0)),
                                          gd_3x3_det(inv.r3.c3, inv.r3.c1, inv.r3.c0, inv.r2.c3, inv.r2.c1, inv.r2.c0, inv.r1.c3, inv.r1.c1, inv.r1.c0),
                                          FNeg(gd_3x3_det(inv.r3.c3, inv.r3.c2, inv.r3.c0, inv.r2.c3, inv.r2.c2, inv.r2.c0, inv.r1.c3, inv.r1.c2, inv.r1.c0)),
                                          gd_3x3_det(inv.r3.c3, inv.r3.c2, inv.r3.c1, inv.r2.c3, inv.r2.c2, inv.r2.c1, inv.r1.c3, inv.r1.c2, inv.r1.c1)>>>>)]

\* gd_adjunct_mat4f(src, dst): src is repackaged into inv before dst is written
gd_adjunct_mat4f(m, src, dst) ==
    LET inv == [r0 |-> [c0 |-> m[src][3][3], c1 |-> m[src][2][3], c2 |-> m[src][1][3], c3 |-> m[src][0][3]],
                r1 |-> [c0 |-> m[src][3][2], c1 |-> m[src][2][2], c2 |-> m[src][1][2], c3 |-> m[src][0][2]],
                r2 |-> [c0 |-> m[src][3][1], c1 |-> m[src][2][1], c2 |-> m[src][1][1], c3 |-> m[src][0][1]],
                r3 |-> [c0 |-> m[src][3][0], c1 |-> m[src][2][0], c2 |-> m[src][1][0], c3 |-> m[src][0][0]]]
    IN  [m EXCEPT ![dst] = Mat4fOf(<<<<gd_3x3_det(inv.r2.c2, inv.r2.c1, inv.r2.c0, inv.r1.c2, inv.r1.c1, inv.r1.c0, inv.r0.c2, inv.r0.c1, inv.r0.c0),
                                          FNeg(gd_3x3_det(inv.r2.c3, inv.r2.c1, inv.r2.c0, inv.r1.c3, inv.r1.c1, inv.r1.c0, inv.r0.c3, inv.r0.c1, inv.r0.c0)),
                                          gd_3x3_det(inv.r2.c3, inv.r2.c2, inv.r2.c0, inv.r1.c3, inv.r1.c2, inv.r1.c0, inv.r0.c3, inv.r0.c2, inv.r0.c0),
                                          FNeg(gd_3x3_det(inv.r2.c3, inv.r2.c2, inv.r2.c1, inv.r1.c3, inv.r1.c2, inv.r1.c1, inv.r0.c3, inv.r0.c2, inv.r0.c1))>>,
                                        <<FNeg(gd_3x3_det(inv.r3.c2, inv.r3.c1, inv.r3.c0, inv.r1.c2, inv.r1.c1, inv.r1.c0, inv.r0.c2, inv.r0.c1, inv.r0.c0)),
                                          gd_3x3_det(inv.r3.c3, inv.r3.c1, inv.r3.c0, inv.r1.c3, inv.r1.c1, inv.r1.c0, inv.r0.c3, inv.r0.c1, inv.r0.c0),
                                          FNeg(gd_3x3_det(inv.r3.c3, inv.r3.c2, inv.r3.c0, inv.r1.c3, inv.r1.c2, inv.r1.c0, inv.r0.c3, inv.r0.c2, inv.r0.c0)),
                                          gd_3x3_det(inv.r3.c3, inv.r3.c2, inv.r3.c1, inv.r1.c3, inv.r1.c2, inv.r1.c1, inv.r0.c3, inv.r0.c2, inv.r0.c1)>>,
                                        <<gd_3x3_det(inv.r3.c2, inv.r3.c1, inv.r3.c0, inv.r2.c2, inv.r2.c1, inv.r2.c0, inv.r0.c2, inv.r0.c1, inv.r0.c0),
                                          FNeg(gd_3x3_det(inv.r3.c3, inv.r3.c1, inv.r3.c0, inv.r2.c3, inv.r2.c1, inv.r2.c0, inv.r0.c3, inv.r0.c1, inv.r0.c0)),
                                          gd_3x3_det(inv.r3.c3, inv.r3.c2, inv.r3.c0, inv.r2.c3, inv.r2.c2, inv.r2.c0, inv.r0.c3, inv.r0.c2, inv.r0.c0),
                                          FNeg(gd_3x3_det(inv.r3.c3, inv.r3.c2, inv.r3.c1, inv.r2.c3, inv.r2.c2, inv.r2.c1, inv.r0.c3, inv.r0.c2, inv.r0.c1))>>,
                                        <<FNeg(gd_3x3_det(inv.r3.c2, inv.r3.c1, inv.r3.c0, inv.r2.c2, inv.r2.c1, inv.r2.c0, inv.r1.c2, inv.r1.c1, inv.r1.c0)),
                                          gd_3x3_det(inv.r3.c3, inv.r3.c1, inv.r3.c0, inv.r2.c3, inv.r2.c1, inv.r2.c0, inv.r1.c3, inv.r1.c1, inv.r1.c0),
                                          FNeg(gd_3x3_det(inv.r3.c3, inv.r3.c2, inv.r3.c0, inv.r2.c3, inv.r2.c2, inv.r2.c0, inv.r1.c3, inv.r1.c2, inv.r1.c0)),
                                          gd_3x3_det(inv.r3.c3, inv.r3.c2, inv.r3.c1, inv.r2.c3, inv.r2.c2, inv.r2.c1, inv.r1.c3, inv.r1.c2, inv.r1.c1)>>>>)]

\* a gd_mat4f_det that adds its fourth term instead of subtracting it
gd_mat4f_det_sign(m, mtx) ==
    LET inv == [r0 |-> [c0 |-> m[mtx][3][3], c1 |-> m[mtx][2][3], c2 |-> m[mtx][1][3], c3 |-> m[mtx][0][3]],
                r1 |-> [c0 |-> m[mtx][3][2], c1 |-> m[mtx][2][2], c2 |-> m[mtx][1][2], c3 |-> m[mtx][0][2]],
                r2 |-> [c0 |-> m[mtx][3][1], c1 |-> m[mtx][2][1], c2 |-> m[mtx][1][1], c3 |-> m[mtx][0][1]],
                r3 |-> [c0 |-> m[mtx][3][0], c1 |-> m[mtx][2][0], c2 |-> m[mtx][1][0], c3 |-> m[mtx][0][0]]]
    IN  FAdd(FAdd(FSub(FMul(inv.r3.c3,
                            gd_3x3_det(inv.r2.c2, inv.r2.c1, inv.r2.c0,
                                       inv.r1.c2, inv.r1.c1, inv.r1.c0,
                                       inv.r0.c2, inv.r0.c1, inv.r0.c0)),
                       FMul(inv.r2.c3,
                            gd_3x3_det(inv.r3.c2, inv.r3.c1, inv.r3.c0,
                                       inv.r1.c2, inv.r1.c1, inv.r1.c0,
                                       inv.r0.c2, inv.r0.c1, inv.r0.c0))),
                  FMul(inv.r1.c3,
                       gd_3x3_det(inv.r3.c2, inv.r3.c1, inv.r3.c0,
                                  inv.r2.c2, inv.r2.c1, inv.r2.c0,
                                  inv.r0.c2, inv.r0.c1, inv.r0.c0))),
             FMul(inv.r0.c3,
                  gd_3x3_det(inv.r3.c2, inv.r3.c1, inv.r3.c0,
                             inv.r2.c2, inv.r2.c1, inv.r2.c0,
                             inv.r1.c2, inv.r1.c1, inv.r1.c0)))

\* gd_mat4f_det(mtx): the value returned
gd_mat4f_det(m, mtx) ==
    LET inv == [r0 |-> [c0 |-> m[mtx][3][3], c1 |-> m[mtx][2][3], c2 |-> m[mtx][1][3], c3 |-> m[mtx][0][3]],
                r1 |-> [c0 |-> m[mtx][3][2], c1 |-> m[mtx][2][2], c2 |-> m[mtx][1][2], c3 |-> m[mtx][0][2]],
                r2 |-> [c0 |-> m[mtx][3][1], c1 |-> m[mtx][2][1], c2 |-> m[mtx][1][1], c3 |-> m[mtx][0][1]],
                r3 |-> [c0 |-> m[mtx][3][0], c1 |-> m[mtx][2][0], c2 |-> m[mtx][1][0], c3 |-> m[mtx][0][0]]]
    IN  FSub(FAdd(FSub(FMul(inv.r3.c3,
                            gd_3x3_det(inv.r2.c2, inv.r2.c1, inv.r2.c0,
                                       inv.r1.c2, inv.r1.c1, inv.r1.c0,
                                       inv.r0.c2, inv.r0.c1, inv.r0.c0)),
                       FMul(inv.r2.c3,
                            gd_3x3_det(inv.r3.c2, inv.r3.c1, inv.r3.c0,
                                       inv.r1.c2, inv.r1.c1, inv.r1.c0,
                                       inv.r0.c2, inv.r0.c1, inv.r0.c0))),
                  FMul(inv.r1.c3,
                       gd_3x3_det(inv.r3.c2, inv.r3.c1, inv.r3.c0,
                                  inv.r2.c2, inv.r2.c1, inv.r2.c0,
                                  inv.r0.c2, inv.r0.c1, inv.r0.c0))),
             FMul(inv.r0.c3,
                  gd_3x3_det(inv.r3.c2, inv.r3.c1, inv.r3.c0,
                             inv.r2.c2, inv.r2.c1, inv.r2.c0,
                             inv.r1.c2, inv.r1.c1, inv.r1.c0)))

\* fatal_print / fatal_printf report the error and do not return: the call
\* ends there, with the memory as it is
fatal_print(m) == [mem |-> m, fatal |-> TRUE]

\* the literal 1e-5 of gd_inverse_mat4f
Epsilon == <<1, 100000>>

\* the loop of gd_inverse_mat4f: (*dst)[i][j] /= determinant for every i, j
DivideAll(m, dst, determinant) ==
    [m EXCEPT ![dst] = [i \in Idx |-> [j \in Idx |-> FDiv(m[dst][i][j], determinant)]]]

\* a gd_inverse_mat4f without the test of the determinant
gd_inverse_mat4f_unchecked(m, src, dst) ==
    Let1(gd_adjunct_mat4f(m, src, dst),
         LAMBDA s1 : Let1(gd_mat4f_det(s1, dst),
                          LAMBDA determinant :
                              [mem |-> DivideAll(s1, dst, determinant), fatal |-> FALSE]))

\* gd_inverse_mat4f(src, dst): the memory on return, or at the fatal report
gd_inverse_mat4f(m, src, dst) ==
    Let1(gd_adjunct_mat4f(m, src, dst),
         LAMBDA s1 : Let1(gd_mat4f_det(s1, dst),
                          LAMBDA determinant :
                              IF FLt(absf(determinant), Epsilon)
                              THEN fatal_print(s1)
                              ELSE [mem |-> DivideAll(s1, dst, determinant), fatal |-> FALSE]))

\* ------------------------------------------------------- vector kernel
\* a struct GdVec3f
Vec3f(x, y, z) == [x |-> x, y |-> y, z |-> z]

\* a gd_normalize_vec3f that scales by 1/mag instead of 1/sqrtf(mag)
gd_normalize_vec3f_nosqrt(v) ==
    LET mag == FAdd(FAdd(sqr(v.x), sqr(v.y)), sqr(v.z))
        inv == FDiv(F(1), mag)
    IN  IF FEq(mag, F(0))
        THEN [vec |-> Vec3f(F(0), F(0), F(0)), ret |-> FALSE]
        ELSE [vec |-> Vec3f(FMul(v.x, inv), FMul(v.y, inv), FMul(v.z, inv)), ret |-> TRUE]

\* gd_normalize_vec3f(vec): the vector left in *vec and the value returned
gd_normalize_vec3f(v) ==
    LET mag == FAdd(FAdd(sqr(v.x), sqr(v.y)), sqr(v.z))
        inv == FDiv(F(1), sqrtf(mag))
    IN  IF FEq(mag, F(0))
        THEN [vec |-> Vec3f(F(0), F(0), F(0)), ret |-> FALSE]
        ELSE [vec |-> Vec3f(FMul(v.x, inv), FMul(v.y, inv), FMul(v.z, inv)), ret |-> TRUE]

\* the branch of gd_create_origin_lookat for hMag != 0
OriginLookatComputed(m, mtx, unit, hMag) ==
    LET invertedHMag == FDiv(F(1), hMag)
        unitsYX == FMul(unit.y, unit.x)
        unitsYZ == FMul(unit.y, unit.z)
    IN  [m EXCEPT ![mtx] = Mat4fOf(<<<<FMul(FNeg(unit.z), invertedHMag), F(0), FMul(unit.x, invertedHMag), F(0)>>,
                                        <<FMul(FNeg(unitsYX), invertedHMag), hMag, FMul(FNeg(unitsYZ), invertedHMag), F(0)>>,
                                        <<FNeg(unit.x), FNeg(unit.y), FNeg(unit.z), F(0)>>,
                                        <<F(0), F(0), F(0), F(1)>>>>)]

\* the branch of gd_create_origin_lookat for hMag == 0
OriginLookatFallback(m, mtx) ==
    [m EXCEPT ![mtx] = Mat4fOf(<<<<F(0), F(0), F(1), F(0)>>,
                                        <<F(1), F(0), F(0), F(0)>>,
                                        <<F(0), F(1), F(0), F(0)>>,
                                        <<F(0), F(0), F(0), F(1)>>>>)]

\* a gd_create_origin_lookat that takes hMag from unit.x and unit.y
gd_create_origin_lookat_xy(m, mtx, v) ==
    Let1(gd_normalize_vec3f(Vec3f(v.x, v.y, v.z)).vec,
         LAMBDA unit : Let1(sqrtf(FAdd(sqr(unit.x), sqr(unit.y))),
                            LAMBDA hMag : Let1(gd_set_identity_mat4(m, mtx),
                                               LAMBDA s1 : IF ~FEq(hMag, F(0))
                                                           THEN OriginLookatComputed(s1, mtx, unit, hMag)
                                                           ELSE OriginLookatFallback(s1, mtx))))

\* gd_create_origin_lookat(mtx, vec); *vec is copied and left as it is
gd_create_origin_lookat(m, mtx, v) ==
    Let1(gd_normalize_vec3f(Vec3f(v.x, v.y, v.z)).vec,
         LAMBDA unit : Let1(sqrtf(FAdd(sqr(unit.x), sqr(unit.z))),
                            LAMBDA hMag : Let1(gd_set_identity_mat4(m, mtx),
                                               LAMBDA s1 : IF ~FEq(hMag, F(0))
                                                           THEN OriginLookatComputed(s1, mtx, unit, hMag)
                                                           ELSE OriginLookatFallback(s1, mtx))))

\* ---------------------------------------------------- rotation builders
\* The trig adapter (degrees_to_angle, sins, coss) belongs to the host engine.
\* degrees_to_angle: degrees to the 16-bit angle domain, 0x10000 to the turn
ToS16(n) == ((n + 32768) % 65536) - 32768

degrees_to_angle(deg) ==
    LET t == Sgn(deg[1]) * ((Abs(deg[1]) * 65536) \div (360 * deg[2]))
    IN  F(ToS16(t))

\* sins and coss on the quarter turns, the only angles the inputs produce
sins(ang) ==
    LET u == ang[1] % 65536
    IN  CASE u = 0 -> F(0) [] u = 16384 -> F(1) [] u = 32768 -> F(0) [] u = 49152 -> F(-1)

coss(ang) ==
    LET u == ang[1] % 65536
    IN  CASE u = 0 -> F(1) [] u = 16384 -> F(0) [] u = 32768 -> F(-1) [] u = 49152 -> F(0)

\* gd_create_rot_matrix(mtx, vec, s, c); rev is a local copy of *vec
gd_create_rot_matrix(m, mtx, v, s, c) ==
    LET rev == Vec3f(v.z, v.y, v.x)
        oneMinusCos == FSub(F(1), c)
        omcYX == FMul(FMul(oneMinusCos, rev.y), rev.x)
        omcZX == FMul(FMul(oneMinusCos, rev.z), rev.x)
        omcZY == FMul(FMul(oneMinusCos, rev.z), rev.y)
        revs == Vec3f(FMul(rev.x, s), FMul(rev.y, s), FMul(rev.z, s))
    IN  [m EXCEPT ![mtx] = Mat4fOf(<<<<FAdd(FMul(oneMinusCos, sqr(rev.z)), c), FAdd(omcZY, revs.x), FSub(omcZX, revs.y), F(0)>>,
                                        <<FSub(omcZY, revs.x), FAdd(FMul(oneMinusCos, sqr(rev.y)), c), FAdd(omcYX, revs.z), F(0)>>,
                                        <<FAdd(omcZX, revs.y), FSub(omcYX, revs.z), FAdd(FMul(oneMinusCos, sqr(rev.x)), c), F(0)>>,
                                        <<F(0), F(0), F(0), F(1)>>>>)]

\* a gd_create_rot_mat_angular that passes the cosine as s and the sine as c
gd_create_rot_mat_angular_swapped(m, mtx, v, deg) ==
    Let1(degrees_to_angle(FMul(deg, F(2))),
         LAMBDA ang : gd_create_rot_matrix(m, mtx, v, coss(ang), sins(ang)))

\* gd_create_rot_mat_angular(mtx, vec, deg)
gd_create_rot_mat_angular(m, mtx, v, deg) ==
    Let1(degrees_to_angle(FMul(deg, F(2))),
         LAMBDA ang : gd_create_rot_matrix(m, mtx, v, sins(ang), coss(ang)))

\* the values of axisnum that gd_absrot_mat4 accepts
ValidAxes == {"GD_X_AXIS", "GD_Y_AXIS", "GD_Z_AXIS"}

\* the vector rot that the switch of gd_absrot_mat4 sets
AxisVec(axisnum) ==
    CASE axisnum = "GD_X_AXIS" -> Vec3f(F(1), F(0), F(0))
      [] axisnum = "GD_Y_AXIS" -> Vec3f(F(0), F(1), F(0))
      [] axisnum = "GD_Z_AXIS" -> Vec3f(F(0), F(0), F(1))

\* a gd_absrot_mat4 that multiplies with the rotation as the first operand
gd_absrot_mat4_left(m, mtx, axisnum, ang) ==
    IF axisnum \notin ValidAxes THEN fatal_print(m)
    ELSE Let1(gd_create_rot_mat_angular(Local(m, "rMat"), "rMat", AxisVec(axisnum), FDiv(ang, F(2))),
              LAMBDA s1 : Let1(gd_mult_mat4f(s1, "rMat", mtx, mtx),
                               LAMBDA s2 : [mem |-> Return(s2, "rMat"), fatal |-> FALSE]))

\* gd_absrot_mat4(mtx, axisnum, ang): the memory on return, or at the fatal report
gd_absrot_mat4(m, mtx, axisnum, ang) ==
    IF axisnum \notin ValidAxes THEN fatal_print(m)
    ELSE Let1(gd_create_rot_mat_angular(Local(m, "rMat"), "rMat", AxisVec(axisnum), FDiv(ang, F(2))),
              LAMBDA s1 : Let1(gd_mult_mat4f(s1, mtx, "rMat", mtx),
                               LAMBDA s2 : [mem |-> Return(s2, "rMat"), fatal |-> FALSE]))

\* ------------------------------------------------- transform operations
\* gd_scale_mat4f_by_vec3f(mtx, vec): row 0 by vec->x, row 1 by vec->y, row 2
\* by vec->z, columns 0..2 only
gd_scale_mat4f_by_vec3f(m, mtx, v) ==
    [m EXCEPT ![mtx] = [i \in Idx |-> [j \in Idx |->
        IF i = 3 \/ j = 3 THEN m[mtx][i][j]
        ELSE FMul(m[mtx][i][j], IF i = 0 THEN v.x ELSE IF i = 1 THEN v.y ELSE v.z)]]]

\* a gd_add_vec3f_to_mat4f_offset that adds the vector to column 3 of rows 0..2
gd_add_vec3f_to_mat4f_offset_col(m, mtx, v) ==
    [m EXCEPT ![mtx] = [i \in Idx |-> [j \in Idx |->
        IF j # 3 \/ i = 3 THEN m[mtx][i][j]
        ELSE FAdd(m[mtx][i][j], IF i = 0 THEN v.x ELSE IF i = 1 THEN v.y ELSE v.z)]]]

\* gd_add_vec3f_to_mat4f_offset(mtx, vec): the vector is added to row 3, columns 0..2
gd_add_vec3f_to_mat4f_offset(m, mtx, v) ==
    [m EXCEPT ![mtx] = [i \in Idx |-> [j \in Idx |->
        IF i # 3 \/ j = 3 THEN m[mtx][i][j]
        ELSE FAdd(m[mtx][i][j], IF j = 0 THEN v.x ELSE IF j = 1 THEN v.y ELSE v.z)]]]

\* one line of gd_rot_mat_about_vec: the rotation is applied when the component
\* is not 0, and nothing follows a fatal report
RotAboutAxis(r, mtx, axisnum, ang) ==
    IF r.fatal \/ FEq(ang, F(0)) THEN r ELSE gd_absrot_mat4(r.mem, mtx, axisnum, ang)

\* gd_rot_mat_about_vec(mtx, vec)
gd_rot_mat_about_vec(m, mtx, v) ==
    Let1(RotAboutAxis([mem |-> m, fatal |-> FALSE], mtx, "GD_X_AXIS", v.x),
         LAMBDA r1 : Let1(RotAboutAxis(r1, mtx, "GD_Y_AXIS", v.y),
                          LAMBDA r2 : RotAboutAxis(r2, mtx, "GD_Z_AXIS", v.z)))

\* ------------------------------------------------------------ look-at
SumSq(v) == FAdd(FAdd(sqr(v.z), sqr(v.y)), sqr(v.x))

Scaled(v, f) == Vec3f(FMul(v.x, f), FMul(v.y, f), FMul(v.z, f))

\* the rescaling of d to magnitude 10,000 that gd_mat4f_lookat applies when the
\* sum of the magnitudes of its components is above 10000 or below 10
LookatRescale(d) ==
    Let1(FAdd(FAdd(absf(d.z), absf(d.y)), absf(d.x)),
         LAMBDA invLength :
             IF FGt(invLength, F(10000)) \/ FLt(invLength, F(10))
             THEN Scaled(gd_normalize_vec3f(d).vec, F(10000))
             ELSE d)

\* the three stores of one column of the matrix and its entry in row 3
LookatColumn(from, c) ==
    <<c.z, c.y, c.x,
      FNeg(FAdd(FAdd(FMul(from.x, c.z), FMul(from.y, c.y)), FMul(from.z, c.x)))>>

\* gd_mat4f_lookat(mtx, xFrom, yFrom, zFrom, xTo, yTo, zTo, zColY, yColY, xColY):
\* from and to are the points (x, y, z), colY holds the last three arguments
\* under the letters of their names
gd_mat4f_lookat(m, mtx, from, to, colY) ==
    Let1(LookatRescale(Vec3f(FSub(to.z, from.z), FSub(to.y, from.y), FSub(to.x, from.x))),
      LAMBDA d1 : Let1(Scaled(d1, FNeg(FDiv(F(1), sqrtf(SumSq(d1))))),
        LAMBDA d : Let1(Vec3f(FSub(FMul(colY.z, d.y), FMul(colY.y, d.z)),
                              FSub(FMul(colY.x, d.z), FMul(colY.z, d.x)),
                              FSub(FMul(colY.y, d.x), FMul(colY.x, d.y))),
          LAMBDA colX0 : Let1(Scaled(colX0, FDiv(F(1), sqrtf(SumSq(colX0)))),
            LAMBDA colX : Let1(Vec3f(FSub(FMul(d.z, colX.y), FMul(d.y, colX.z)),
                                     FSub(FMul(d.x, colX.z), FMul(d.z, colX.x)),
                                     FSub(FMul(d.y, colX.x), FMul(d.x, colX.y))),
              LAMBDA colY0 : Let1(Scaled(colY0, FDiv(F(1), sqrtf(SumSq(colY0)))),
                LAMBDA colY1 :
                    LET c0 == LookatColumn(from, colX)
                        c1 == LookatColumn(from, colY1)
                        c2 == LookatColumn(from, d)
                    IN  [m EXCEPT ![mtx] = Mat4fOf(<<<<c0[1], c1[1], c2[1], F(0)>>,
                                                        <<c0[2], c1[2], c2[2], F(0)>>,
                                                        <<c0[3], c1[3], c2[3], F(0)>>,
                                                        <<c0[4], c1[4], c2[4], F(1)>>>>)]))))))

\* ------------------------------------------------ quaternion rotation
\* the copy loop of gd_shift_mat_up from its k-th assignment on:
\* (*mtx)[i - 1][j - 1] = (*mtx)[i][j] for i = 1..3 and, inside, j = 1..3
RECURSIVE ShiftCopyFrom(_, _, _)
ShiftCopyFrom(m, mtx, k) ==
    IF k >= 9 THEN m
    ELSE LET i == 1 + (k \div 3)
             j == 1 + (k % 3)
         IN  Let1(Store(m, mtx, i - 1, j - 1, m[mtx][i][j]),
                  LAMBDA s : ShiftCopyFrom(s, mtx, k + 1))

\* the last column and the last row that gd_shift_mat_up writes after the copy
ShiftBorder(m, mtx, temp) ==
    [m EXCEPT ![mtx] = [i \in Idx |-> [j \in Idx |->
        IF j = 3 THEN (IF i = 3 THEN F(1) ELSE F(0))
        ELSE IF i = 3 THEN temp[j]
        ELSE m[mtx][i][j]]]]

\* a gd_shift_mat_up that moves whole rows up and keeps every value in its column
gd_shift_mat_up_rows(m, mtx) ==
    [m EXCEPT ![mtx] = [i \in Idx |-> [j \in Idx |->
        IF j = 3 THEN (IF i = 3 THEN F(1) ELSE F(0))
        ELSE m[mtx][(i + 1) % 4][j]]]]

\* gd_shift_mat_up(mtx)
gd_shift_mat_up(m, mtx) ==
    Let1([i \in 0..2 |-> m[mtx][0][i + 1]],
         LAMBDA temp : Let1(ShiftCopyFrom(m, mtx, 0),
                            LAMBDA s : ShiftBorder(s, mtx, temp)))

\* the successor index of the loop of gd_create_quat_rot_mat: i + 1, wrapped to 1
QuatNext(i) == IF i + 1 >= 4 THEN 1 ELSE i + 1

\* the body of the loop of gd_create_quat_rot_mat for one i
QuatStep(m, quat, mtx, i) ==
    LET j == QuatNext(i)
        k == QuatNext(j)
        twoIJ == FMul(FMul(F(2), quat[i]), quat[j])
        two0K == FMul(FMul(F(2), quat[k]), quat[0])
        diag == FSub(FSub(FAdd(sqr(quat[i]), sqr(quat[0])), sqr(quat[j])), sqr(quat[k]))
    IN  Let1(Store(m, mtx, j, i, FSub(twoIJ, two0K)),
             LAMBDA s1 : Let1(Store(s1, mtx, i, j, FAdd(twoIJ, two0K)),
                              LAMBDA s2 : Let1(Store(s2, mtx, i, i, diag),
                                               LAMBDA s3 : Store(s3, mtx, i, 0, F(0)))))

\* the loop of gd_create_quat_rot_mat from i on
RECURSIVE QuatLoopFrom(_, _, _, _)
QuatLoopFrom(m, quat, mtx, i) ==
    IF i >= 4 THEN m
    ELSE Let1(QuatStep(m, quat, mtx, i), LAMBDA s : QuatLoopFrom(s, quat, mtx, i + 1))

\* gd_create_quat_rot_mat(quat, unused, mtx)
gd_create_quat_rot_mat(m, quat, mtx) ==
    Let1(QuatLoopFrom(m, quat, mtx, 1),
         LAMBDA s1 : Let1(Store(s1, mtx, 0, 0, F(1)),
                          LAMBDA s2 : gd_shift_mat_up(s2, mtx)))

\* ------------------------------------------------------------- inputs
\* the rows the input matrices are built from
RowTable == << <<1, 0, 0, 0>>, <<0, 0, 0, 0>>, <<1, -1, 2, 1>>, <<1, 1, -1, 0>>, <<2, 0, 1, 0>> >>

\* row i of an input matrix is a row of the table, rotated right by i places
InputMat(k) == [i \in Idx |-> [j \in Idx |-> F(RowTable[k[i]][((j - i) % 4) + 1])]]

\* what the output buffer holds before any call
StaleMat == [i \in Idx |-> [j \in Idx |-> F(3 * i - j + 1)]]

VecInputs == {Vec3f(F(x), F(y), F(z)) : x, y, z \in -MaxVal..MaxVal}

DefaultVec == Vec3f(F(0), F(MaxVal), F(0))

\* the points gd_mat4f_lookat is called with: eye and target, on the z axis
FromInputs == {Vec3f(F(0), F(0), F(0)), Vec3f(F(0), F(0), F(12))}

ToInputs == {Vec3f(F(0), F(0), F(0)), Vec3f(F(0), F(0), F(12)), Vec3f(F(0), F(0), F(3))}

\* the up reference (zColY, yColY, xColY)
ColYInputs == {[z |-> F(0), y |-> F(1), x |-> F(0)], [z |-> F(0), y |-> F(0), x |-> F(1)]}

\* quaternions (w, i, j, k): the unit, a half turn, and two that are not normalised
QuatInputs == {[i \in Idx |-> F(q[i + 1])] : q \in {<<1, 0, 0, 0>>, <<0, 0, 1, 0>>, <<1, 1, 0, 0>>, <<1, 2, -1, 1>>}}

AxisInputs == ValidAxes \cup {"GD_BAD_AXIS"}

AngleInputs == {F(0), F(90), F(180), F(-90)}

\* ------------------------------------------------------ state machine
VARIABLES
    mem,     \* the contents of the caller's Mat4f buffers
    vec,     \* the caller's struct GdVec3f
    ret,     \* the s32 returned by the last call (gd_normalize_vec3f)
    retf,    \* the f32 returned by the last call (gd_mat4f_det)
    fatal,   \* the last call ended in fatal_print / fatal_printf
    call,    \* the last call: function and arguments
    premem,  \* mem before the last call
    prevec   \* vec before the last call

vars == <<mem, vec, ret, retf, fatal, call, premem, prevec>>

\* n counts the calls made so far; args holds the value arguments of the call
NoCall == [fn |-> "none", a |-> "-", b |-> "-", d |-> "-", axis |-> "-", ang |-> F(0),
           n |-> 0, args |-> <<>>]

Init ==
    \E k \in [Idx -> 1..NumRows], v \in VecInputs :
        /\ v = DefaultVec \/ \A i \in Idx : k[i] = 1
        /\ mem = [p \in Bufs |-> IF p = "m0" THEN InputMat(k)
                                 ELSE IF p = "m1" THEN InputMat([i \in Idx |-> k[3 - i]])
                                 ELSE StaleMat]
        /\ vec = v
        /\ ret = FALSE
        /\ retf = F(0)
        /\ fatal = FALSE
        /\ call = NoCall
        /\ premem = mem
        /\ prevec = vec

\* the caller makes one call on the inputs
Ready == call.fn = "none"

Called(fn, a, b, d, axis, ang) ==
    /\ call' = [fn |-> fn, a |-> a, b |-> b, d |-> d, axis |-> axis, ang |-> ang,
                n |-> call.n + 1, args |-> <<>>]
    /\ premem' = mem
    /\ prevec' = vec

CalledWith(fn, d, args) ==
    /\ call' = [fn |-> fn, a |-> "-", b |-> "-", d |-> d, axis |-> "-", ang |-> F(0),
                n |-> call.n + 1, args |-> args]
    /\ premem' = mem
    /\ prevec' = vec

SetIdentity(mtx) ==
    /\ Ready
    /\ mem' = gd_set_identity_mat4(mem, mtx)
    /\ Called("gd_set_identity_mat4", "-", "-", mtx, "-", F(0))
    /\ UNCHANGED <<vec, ret, retf, fatal>>

Mult(mA, mB, dst) ==
    /\ Ready
    /\ mem' = gd_mult_mat4f(mem, mA, mB, dst)
    /\ Called("gd_mult_mat4f", mA, mB, dst, "-", F(0))
    /\ UNCHANGED <<vec, ret, retf, fatal>>

Det(mtx) ==
    /\ Ready
    /\ retf' = gd_mat4f_det(mem, mtx)
    /\ Called("gd_mat4f_det", mtx, "-", "-", "-", F(0))
    /\ UNCHANGED <<mem, vec, ret, fatal>>

Adjunct(src, dst) ==
    /\ Ready
    /\ mem' = gd_adjunct_mat4f(mem, src, dst)
    /\ Called("gd_adjunct_mat4f", src, "-", dst, "-", F(0))
    /\ UNCHANGED <<vec, ret, retf, fatal>>

Inverse(src, dst) ==
    /\ Ready
    /\ LET r == gd_inverse_mat4f(mem, src, dst)
       IN  mem' = r.mem /\ fatal' = r.fatal
    /\ Called("gd_inverse_mat4f", src, "-", dst, "-", F(0))
    /\ UNCHANGED <<vec, ret, retf>>

Absrot(mtx, axisnum, ang) ==
    /\ Ready
    /\ LET r == gd_absrot_mat4(mem, mtx, axisnum, ang)
       IN  mem' = r.mem /\ fatal' = r.fatal
    /\ Called("gd_absrot_mat4", "-", "-", mtx, axisnum, ang)
    /\ UNCHANGED <<vec, ret, retf>>

Normalize ==
    /\ Ready
    /\ LET r == gd_normalize_vec3f(vec)
       IN  vec' = r.vec /\ ret' = r.ret
    /\ Called("gd_normalize_vec3f", "-", "-", "-", "-", F(0))
    /\ UNCHANGED <<mem, retf, fatal>>

OriginLookat(mtx) ==
    /\ Ready
    /\ mem' = gd_create_origin_lookat(mem, mtx, vec)
    /\ Called("gd_create_origin_lookat", "-", "-", mtx, "-", F(0))
    /\ UNCHANGED <<vec, ret, retf, fatal>>

ShiftUp(mtx) ==
    /\ Ready
    /\ mem' = gd_shift_mat_up(mem, mtx)
    /\ CalledWith("gd_shift_mat_up", mtx, <<>>)
    /\ UNCHANGED <<vec, ret, retf, fatal>>

QuatRotMat(quat, mtx) ==
    /\ Ready
    /\ mem' = gd_create_quat_rot_mat(mem, quat, mtx)
    /\ CalledWith("gd_create_quat_rot_mat", mtx, <<quat>>)
    /\ UNCHANGED <<vec, ret, retf, fatal>>

Lookat(mtx, from, to, colY) ==
    /\ Ready
    /\ mem' = gd_mat4f_lookat(mem, mtx, from, to, colY)
    /\ CalledWith("gd_mat4f_lookat", mtx, <<from, to, colY>>)
    /\ UNCHANGED <<vec, ret, retf, fatal>>

Next ==
    \/ \E mtx \in Bufs : SetIdentity(mtx)
    \/ \E mA, mB, dst \in Bufs : Mult(mA, mB, dst)
    \/ Det("m0")
    \/ \E dst \in {"m0", "m2"} : Adjunct("m0", dst)
    \/ \E dst \in {"m0", "m2"} : Inverse("m0", dst)
    \/ \E axisnum \in AxisInputs, ang \in AngleInputs : Absrot("m0", axisnum, ang)
    \/ Normalize
    \/ \E mtx \in Bufs : OriginLookat(mtx)
    \/ \E mtx \in {"m0", "m2"} : ShiftUp(mtx)
    \/ \E quat \in QuatInputs, mtx \in {"m0", "m2"} : QuatRotMat(quat, mtx)
    \/ \E from \in FromInputs, to \in ToInputs, colY \in ColYInputs : Lookat("m2", from, to, colY)

Spec == Init /\ [][Next]_vars

\* ------------------------------------------------- reference notions
\* the matrix product A.B of two matrix values
MatProduct(A, B) ==
    [i \in Idx |-> [j \in Idx |->
        FAdd(FAdd(FAdd(FMul(A[i][0], B[0][j]), FMul(A[i][1], B[1][j])),
                  FMul(A[i][2], B[2][j])),
             FMul(A[i][3], B[3][j]))]]

\* the identity matrix, and its multiples
ScaledIdentity(c) == [i \in Idx |-> [j \in Idx |-> IF i = j THEN c ELSE F(0)]]

IdentityMat == ScaledIdentity(F(1))

\* the permutations of the four indices
Perms == {p \in [Idx -> Idx] : \A i, j \in Idx : p[i] = p[j] => i = j}

Inversions(p) == Cardinality({ij \in Idx \X Idx : ij[1] < ij[2] /\ p[ij[1]] > p[ij[2]]})

PermSign(p) == IF Inversions(p) % 2 = 0 THEN F(1) ELSE F(-1)

LeibnizTerm(p, M) ==
    FMul(PermSign(p), FMul(FMul(M[0][p[0]], M[1][p[1]]), FMul(M[2][p[2]], M[3][p[3]])))

RECURSIVE SumOver(_, _)
SumOver(S, M) ==
    IF S = {} THEN F(0)
    ELSE LET p == CHOOSE q \in S : TRUE
         IN  FAdd(LeibnizTerm(p, M), SumOver(S \ {p}, M))

\* the determinant by the Leibniz formula
LeibnizDet(M) == SumOver(Perms, M)

HasZeroRow(M) == \E i \in Idx : \A j \in Idx : M[i][j] = F(0)

\* the matrix gd_set_identity_mat4 writes
WrittenIdentity == gd_set_identity_mat4([p \in {"I"} |-> StaleMat], "I")["I"]

\* the product gd_mult_mat4f leaves in a buffer distinct from its operands
MultResult(A, B) ==
    gd_mult_mat4f([p \in {"A", "B", "R"} |-> IF p = "A" THEN A ELSE IF p = "B" THEN B ELSE StaleMat],
                  "A", "B", "R")["R"]

\* the rotation matrix gd_create_rot_mat_angular builds for a principal axis and ang/2
RotationOf(axisnum, ang) ==
    gd_create_rot_mat_angular([p \in {"R"} |-> StaleMat], "R", AxisVec(axisnum), FDiv(ang, F(2)))["R"]

\* the tolerance of the inverse round trip
RoundTripTol == <<1, 1000>>

Near(a, b, tol) == IsFinite(a) /\ IsFinite(b) /\ FLe(absf(FSub(a, b)), tol)

ZeroVec == Vec3f(F(0), F(0), F(0))

SqMag(v) == FAdd(FAdd(sqr(v.x), sqr(v.y)), sqr(v.z))

\* the fixed basis of the zero-hMag branch of gd_create_origin_lookat
FixedBasis ==
    [i \in Idx |-> [j \in Idx |->
        IF <<i, j>> \in {<<1, 0>>, <<2, 1>>, <<0, 2>>, <<3, 3>>} THEN F(1) ELSE F(0)]]

OthersUnchanged(dst) == \A p \in Bufs \ {dst} : mem[p] = premem[p]

\* --------------------------------------------------------- properties

\* C1: for every non-singular matrix M (determinant of magnitude at least
\* 1e-5, of any value), the matrix X that gd_inverse_mat4f(M, X) writes
\* satisfies M.X = identity within tolerance.
C1_InverseRoundTrip ==
    (call.fn = "gd_inverse_mat4f" /\ ~FLt(absf(LeibnizDet(premem[call.a])), Epsilon))
        => /\ ~fatal
           /\ \A i, j \in Idx :
                Near(MultResult(premem[call.a], mem[call.d])[i][j], IdentityMat[i][j], RoundTripTol)

\* C2: for every singular src (determinant exactly 0, the all-zero matrix
\* included) gd_inverse_mat4f reaches the fatal report, and at that point no
\* entry of dst has been divided: dst holds the adjugate as gd_adjunct_mat4f
\* wrote it.
C2_SingularIsFatal ==
    (call.fn = "gd_inverse_mat4f" /\ LeibnizDet(premem[call.a]) = F(0))
        => /\ fatal
           /\ mem = gd_adjunct_mat4f(premem, call.a, call.d)
           /\ \A i, j \in Idx : IsFinite(mem[call.d][i][j])

C2_Witness ==
    /\ call.fn = "gd_inverse_mat4f"
    /\ LeibnizDet(premem[call.a]) = F(0)
    /\ fatal
    /\ \E i, j \in Idx : mem[call.d][i][j] # F(0)

\* C3: the matrix written by gd_set_identity_mat4 is a two-sided unit of
\* gd_mult_mat4f: with it as mB, dst is left equal to mA in all 16 entries,
\* and with it as mA, dst is left equal to mB.
C3_IdentityIsUnit ==
    call.fn = "gd_mult_mat4f"
        => /\ premem[call.b] = WrittenIdentity => mem[call.d] = premem[call.a]
           /\ premem[call.a] = WrittenIdentity => mem[call.d] = premem[call.b]

C3_Witness ==
    /\ call.fn = "gd_mult_mat4f"
    /\ premem[call.b] = WrittenIdentity
    /\ premem[call.a] # WrittenIdentity
    /\ ~HasZeroRow(premem[call.a])
    /\ call.d # call.a
    /\ mem[call.d] = premem[call.a]

\* C4: gd_mult_mat4f is alias-safe: whichever of mA, mB the buffer dst is
\* (either, both or neither), dst is left holding the product of the values
\* the operands held before the call, and no other buffer changes.
C4_MultAliasSafe ==
    call.fn = "gd_mult_mat4f"
        => /\ mem[call.d] = MatProduct(premem[call.a], premem[call.b])
           /\ OthersUnchanged(call.d)

C4_Witness ==
    /\ call.fn = "gd_mult_mat4f"
    /\ call.a = call.d
    /\ call.b = call.d
    /\ mem[call.d] # premem[call.d]
    /\ mem[call.d] = MatProduct(premem[call.d], premem[call.d])

\* C5: gd_normalize_vec3f returns FALSE exactly when the input is (0,0,0),
\* and then leaves the vector (0,0,0); for every nonzero input it returns TRUE
\* and leaves the input scaled by 1/sqrt(x^2+y^2+z^2), which has unit length
\* (exactly when the squared magnitude is a perfect square, and within the
\* rounding of the modelled sqrtf otherwise).
C5_Normalize ==
    call.fn = "gd_normalize_vec3f"
        => LET inv == FDiv(F(1), sqrtf(SqMag(prevec)))
               bound == sqr(FAdd(F(1), FDiv(F(1), F(SqrtScale))))
           IN  /\ (ret = FALSE) <=> (prevec = ZeroVec)
               /\ prevec = ZeroVec => vec = ZeroVec
               /\ prevec # ZeroVec =>
                    /\ ret = TRUE
                    /\ vec = Vec3f(FMul(prevec.x, inv), FMul(prevec.y, inv), FMul(prevec.z, inv))
                    /\ FLe(F(1), SqMag(vec)) /\ FLe(SqMag(vec), bound)
                    /\ (IsSquare(SqMag(prevec)[1]) => SqMag(vec) = F(1))

C5_Witness ==
    /\ call.fn = "gd_normalize_vec3f"
    /\ prevec = Vec3f(F(1), F(-2), F(2))
    /\ ret = TRUE
    /\ vec = Vec3f(<<1, 3>>, <<-2, 3>>, <<2, 3>>)

\* C6: gd_mat4f_det returns the determinant of its argument (no sign or index
\* error from the reversed repackaging); it returns exactly 1 for the identity
\* and exactly 0 for every matrix with an all-zero row.
C6_Determinant ==
    call.fn = "gd_mat4f_det"
        => /\ retf = LeibnizDet(premem[call.a])
           /\ premem[call.a] = IdentityMat => retf = F(1)
           /\ HasZeroRow(premem[call.a]) => retf = F(0)

C6_Witness ==
    /\ call.fn = "gd_mat4f_det"
    /\ retf = LeibnizDet(premem[call.a])
    /\ FLt(retf, F(-1))

\* C7: for every matrix M and every valid axis, gd_absrot_mat4(mtx, axis, 0)
\* leaves all 16 entries of mtx equal to M, the trig adapter returning sin = 0
\* and cos = 1 for the angle 0.
C7_AbsrotZero ==
    (/\ call.fn = "gd_absrot_mat4"
     /\ call.axis \in ValidAxes
     /\ call.ang = F(0)
     /\ sins(degrees_to_angle(F(0))) = F(0)
     /\ coss(degrees_to_angle(F(0))) = F(1))
        => ~fatal /\ mem = premem

C7_Witness ==
    /\ call.fn = "gd_absrot_mat4"
    /\ call.axis = "GD_Y_AXIS"
    /\ call.ang = F(0)
    /\ premem[call.d] # IdentityMat
    /\ ~HasZeroRow(premem[call.d])
    /\ mem = premem

\* C8, as stated: after gd_absrot_mat4(mtx, axis, ang) with a valid axis, mtx
\* equals rotation . M, where rotation is the matrix gd_create_rot_mat_angular
\* builds for the axis' unit vector and ang/2.
C8_LeftMultiplication ==
    (call.fn = "gd_absrot_mat4" /\ call.axis \in ValidAxes)
        => mem[call.d] = MatProduct(RotationOf(call.axis, call.ang), premem[call.d])

\* C8, amended: after gd_absrot_mat4(mtx, axis, ang) with a valid axis, mtx
\* equals M . rotation (the rotation is the second operand of gd_mult_mat4f),
\* and no other buffer changes.
C8_RightMultiplication ==
    (call.fn = "gd_absrot_mat4" /\ call.axis \in ValidAxes)
        => /\ ~fatal
           /\ mem[call.d] = MatProduct(premem[call.d], RotationOf(call.axis, call.ang))
           /\ OthersUnchanged(call.d)

C8_Witness ==
    /\ call.fn = "gd_absrot_mat4"
    /\ call.axis = "GD_X_AXIS"
    /\ call.ang = F(90)
    /\ mem[call.d] = MatProduct(premem[call.d], RotationOf(call.axis, call.ang))
    /\ mem[call.d] # MatProduct(RotationOf(call.axis, call.ang), premem[call.d])

\* C9: for every direction with x = 0 and z = 0, gd_create_origin_lookat
\* writes exactly the fixed matrix whose only nonzero entries are [1][0],
\* [2][1], [0][2] and [3][3], all 1, whatever mtx held before and whatever the
\* sign or size of y.
C9_VerticalFallback ==
    (call.fn = "gd_create_origin_lookat" /\ prevec.x = F(0) /\ prevec.z = F(0))
        => /\ mem[call.d] = FixedBasis
           /\ OthersUnchanged(call.d)
           /\ vec = prevec

C9_Witness ==
    /\ call.fn = "gd_create_origin_lookat"
    /\ prevec.x = F(0) /\ prevec.z = F(0) /\ FLt(prevec.y, F(-1))
    /\ premem[call.d] # FixedBasis
    /\ mem[call.d] = FixedBasis

\* C10: gd_adjunct_mat4f computes the adjugate: with A the matrix it writes
\* for M, gd_mult_mat4f(M, A) is gd_mat4f_det(M) times the identity.
C10_Adjugate ==
    call.fn = "gd_adjunct_mat4f"
        => MultResult(premem[call.a], mem[call.d]) = ScaledIdentity(gd_mat4f_det(premem, call.a))

C10_Witness ==
    /\ call.fn = "gd_adjunct_mat4f"
    /\ call.a = call.d
    /\ FGt(absf(gd_mat4f_det(premem, call.a)), F(1))
    /\ \A i, j \in Idx : mem[call.d][i][j] # F(0)
    /\ MultResult(premem[call.a], mem[call.d]) = ScaledIdentity(gd_mat4f_det(premem, call.a))

\* what gd_shift_mat_up leaves of M: the block of rows 1..3 and columns 1..3
\* moved to rows 0..2 and columns 0..2, columns 1..3 of row 0 in row 3, and
\* the last column (0,0,0,1)
ShiftedUpLeft(M) ==
    [i \in Idx |-> [j \in Idx |->
        IF j = 3 THEN (IF i = 3 THEN F(1) ELSE F(0))
        ELSE M[(i + 1) % 4][j + 1]]]

QuatRotation(quat) ==
    [i \in Idx |-> [j \in Idx |->
        IF i = 3 \/ j = 3 THEN (IF i = j THEN F(1) ELSE F(0))
        ELSE IF i = j
             THEN FSub(FSub(FAdd(sqr(quat[i + 1]), sqr(quat[0])), sqr(quat[QuatNext(i + 1)])),
                       sqr(quat[QuatNext(QuatNext(i + 1))]))
        ELSE IF j + 1 = QuatNext(i + 1)
             THEN FAdd(FMul(FMul(F(2), quat[i + 1]), quat[j + 1]),
                       FMul(FMul(F(2), quat[QuatNext(j + 1)]), quat[0]))
        ELSE FSub(FMul(FMul(F(2), quat[j + 1]), quat[i + 1]),
                  FMul(FMul(F(2), quat[QuatNext(i + 1)]), quat[0]))]]

\* C11 as stated: after gd_create_quat_rot_mat the last row and the last
\* column of mtx are (0,0,0,1) and the result is the rotation matrix of the
\* quaternion, whatever mtx held before the call
C11_QuatHomogeneous ==
    call.fn = "gd_create_quat_rot_mat" =>
        /\ \A i \in Idx : mem[call.d][i][3] = (IF i = 3 THEN F(1) ELSE F(0))
        /\ \A j \in Idx : mem[call.d][3][j] = (IF j = 3 THEN F(1) ELSE F(0))
        /\ mem[call.d] = QuatRotation(call.args[1])

\* C13 as stated: gd_mat4f_lookat leaves 16 finite entries for every finite
\* eye, target and up reference, and with the eye equal to the target the
\* forward entries [0][2], [1][2], [2][2] are all zero
C13_LookatFinite ==
    call.fn = "gd_mat4f_lookat" =>
        /\ \A i \in Idx, j \in Idx : IsFinite(mem[call.d][i][j])
        /\ call.args[1] = call.args[2] => \A i \in 0..2 : mem[call.d][i][2] = F(0)

\* ------------------------------------------- sequences of transforms
\* the longest sequence of transform operations applied to one matrix
MaxOps == 3

\* the other operand of gd_mult_mat4f: matrices whose last column is (0,0,0,1)
AffineInputs ==
    { Mat4fOf(<< <<F(1), F(2), F(0), F(0)>>, <<F(0), F(1), F(0), F(0)>>,
                 <<F(-1), F(0), F(2), F(0)>>, <<F(3), F(1), F(-2), F(1)>> >>),
      Mat4fOf(<< <<F(0), F(1), F(0), F(0)>>, <<F(-1), F(0), F(0), F(0)>>,
                 <<F(0), F(0), F(1), F(0)>>, <<F(1), F(0), F(2), F(1)>> >>) }

ScaleInputs == {Vec3f(F(2), F(1), F(-1)), Vec3f(F(1), F(3), F(0))}

OffsetInputs == {Vec3f(F(1), F(-2), F(3))}

\* rotation vectors, in degrees about x, y and z
RotVecInputs == {Vec3f(F(90), F(0), F(180)), Vec3f(F(0), F(-90), F(0))}

\* m0 is written by gd_set_identity_mat4, m1 is the other operand
InitSeq ==
    \E other \in AffineInputs :
        /\ mem = gd_set_identity_mat4([p \in Bufs |-> IF p = "m1" THEN other ELSE StaleMat], "m0")
        /\ vec = DefaultVec
        /\ ret = FALSE
        /\ retf = F(0)
        /\ fatal = FALSE
        /\ call = NoCall
        /\ premem = mem
        /\ prevec = vec

Composing == call.n < MaxOps

SeqScale(mtx, v) ==
    /\ Composing
    /\ mem' = gd_scale_mat4f_by_vec3f(mem, mtx, v)
    /\ CalledWith("gd_scale_mat4f_by_vec3f", mtx, <<v>>)
    /\ UNCHANGED <<vec, ret, retf, fatal>>

SeqAddOffset(mtx, v) ==
    /\ Composing
    /\ mem' = gd_add_vec3f_to_mat4f_offset(mem, mtx, v)
    /\ CalledWith("gd_add_vec3f_to_mat4f_offset", mtx, <<v>>)
    /\ UNCHANGED <<vec, ret, retf, fatal>>

SeqAbsrot(mtx, axisnum, ang) ==
    /\ Composing
    /\ LET r == gd_absrot_mat4(mem, mtx, axisnum, ang)
       IN  mem' = r.mem /\ fatal' = r.fatal
    /\ Called("gd_absrot_mat4", "-", "-", mtx, axisnum, ang)
    /\ UNCHANGED <<vec, ret, retf>>

SeqRotAboutVec(mtx, v) ==
    /\ Composing
    /\ LET r == gd_rot_mat_about_vec(mem, mtx, v)
       IN  mem' = r.mem /\ fatal' = r.fatal
    /\ CalledWith("gd_rot_mat_about_vec", mtx, <<v>>)
    /\ UNCHANGED <<vec, ret, retf>>

SeqMult(mA, mB, dst) ==
    /\ Composing
    /\ mem' = gd_mult_mat4f(mem, mA, mB, dst)
    /\ Called("gd_mult_mat4f", mA, mB, dst, "-", F(0))
    /\ UNCHANGED <<vec, ret, retf, fatal>>

NextSeq ==
    \/ \E v \in ScaleInputs : SeqScale("m0", v)
    \/ \E v \in OffsetInputs : SeqAddOffset("m0", v)
    \/ \E axisnum \in ValidAxes : SeqAbsrot("m0", axisnum, F(90))
    \/ \E v \in RotVecInputs : SeqRotAboutVec("m0", v)
    \/ SeqMult("m0", "m1", "m0")
    \/ SeqMult("m1", "m0", "m0")

SpecSeq == InitSeq /\ [][NextSeq]_vars

\* the last column of a matrix in affine form
AffineColumn(M) == \A i \in Idx : M[i][3] = (IF i = 3 THEN F(1) ELSE F(0))

\* C14: starting from a matrix written by gd_set_identity_mat4, after every
\* sequence of gd_scale_mat4f_by_vec3f, gd_add_vec3f_to_mat4f_offset,
\* gd_absrot_mat4 with a valid axis, gd_rot_mat_about_vec and gd_mult_mat4f with
\* a matrix whose last column is (0,0,0,1), the last column of the matrix is
\* (0,0,0,1) and no call ends in a fatal report
C14_AffinePreserved == AffineColumn(mem["m0"]) /\ ~fatal

\* a longest sequence that ends in a rotation about a vector, of a matrix that
\* has been scaled or multiplied away from a rotation and has a translation
C14_Witness ==
    /\ call.n = MaxOps
    /\ call.fn = "gd_rot_mat_about_vec"
    /\ mem["m0"] # premem["m0"]
    /\ \E j \in 0..2 : mem["m0"][3][j] # F(0)
    /\ \E i, j \in 0..2 : mem["m0"][i][j] \notin {F(0), F(1), F(-1)}

====
